---- MODULE Spec2Model ----
(***************************************************************************)
(* Model of app.py of slack-fare-bot: the /fare slash-command handler      *)
(* handle_fare, the Mapbox geocoding helper geocode_with_mapbox and the    *)
(* deep-link builders make_uber_link and make_lyft_link.                   *)
(*                                                                         *)
(* A Python str is a sequence of one-character strings.  A URL is a        *)
(* sequence of fragments whose concatenation is the URL text: a fragment   *)
(* is either one encoded character of a value or a fixed piece of text     *)
(* (base URL, an encoded key, "=", "&").  An optional value (None or a     *)
(* value) is a sequence of length 0 or 1.                                  *)
(***************************************************************************)
EXTENDS Integers, Sequences, FiniteSets, TLC

\* ---------------------------------------------------------------- bounds
\* A command text is the concatenation of at most MaxPieces pieces.
MaxPieces == 5

\* The same bound for the behaviours checked for termination.
MaxLivePieces == 3

\* ------------------------------------------------------------ characters
SP == " "
TAB == "\t"

\* The characters str.strip() removes, among those of the alphabet.
Whitespace == {SP, TAB}

\* The delimiter of the command: " to ".
Delimiter == <<SP, "t", "o", SP>>

\* The pieces: a space, a tab, a letter, the word "to", and " to ".
Pieces == {<<SP>>, <<TAB>>, <<"A">>, <<"t", "o">>, Delimiter}

RECURSIVE TextsUpTo(_)
TextsUpTo(n) ==
  IF n = 0 THEN {<<>>}
  ELSE LET prev == TextsUpTo(n - 1)
       IN prev \cup {t \o p : t \in prev, p \in Pieces}

Texts == TextsUpTo(MaxPieces)

\* None and a present value v.
None == <<>>
Some(v) == <<v>>

\* Python truthiness of an optional, non-empty value (`if pickup_coords:`).
Truthy(x) == x # None

\* ------------------------------------------------------- str operations
\* str.strip(): drop leading and trailing whitespace.
RECURSIVE lstrip(_)
lstrip(s) ==
  IF s = <<>> THEN <<>>
  ELSE IF Head(s) \in Whitespace THEN lstrip(Tail(s)) ELSE s

RECURSIVE rstrip(_)
rstrip(s) ==
  IF s = <<>> THEN <<>>
  ELSE IF s[Len(s)] \in Whitespace THEN rstrip(SubSeq(s, 1, Len(s) - 1)) ELSE s

strip(s) == rstrip(lstrip(s))

\* The positions at which sub occurs in s.
Occurrences(s, sub) ==
  {i \in 1..(Len(s) - Len(sub) + 1) : SubSeq(s, i, i + Len(sub) - 1) = sub}

\* `sub in s`
Contains(s, sub) == Occurrences(s, sub) # {}

\* The least element of a non-empty set of integers.
Min(S) == CHOOSE i \in S : \A j \in S : i <= j

\* The least upper bound of a non-empty set of integers.
Max(S) == CHOOSE i \in S : \A j \in S : i >= j

\* The split made at the last occurrence (s.rsplit(sep, 1)).
split1_last(s, sep) ==
  LET i == Max(Occurrences(s, sep))
  IN <<SubSeq(s, 1, i - 1), SubSeq(s, i + Len(sep), Len(s))>>

\* s.split(sep, 1) when sep occurs in s: the text before the first
\* occurrence and the whole remainder after it.
split1(s, sep) ==
  LET i == Min(Occurrences(s, sep))
  IN <<SubSeq(s, 1, i - 1), SubSeq(s, i + Len(sep), Len(s))>>

\* The text taken without trimming it.
CommandText_untrimmed(cmd) == IF cmd.has_text THEN cmd.text ELSE <<>>

\* (command.get("text") or "").strip()
CommandText(cmd) == strip(IF cmd.has_text THEN cmd.text ELSE <<>>)

\* ------------------------------------------------------- configuration
\* UBER_CLIENT_ID = os.environ.get("UBER_CLIENT_ID", "fare-bot"): the default.
UBER_CLIENT_ID == "fare-bot"

\* The values os.environ.get("MAPBOX_TOKEN") can give: None, "" or a token.
MapboxTokens == {None, Some(""), Some("pk.token")}

\* `not MAPBOX_TOKEN`
TokenMissing(token) == token = None \/ token[1] = ""

\* ------------------------------------------------------------ geocoding
\* What one requests.get(url, params, timeout=5) can do, and the body of
\* the response it returns.  center is Mapbox's [lng, lat].
Centers == {<<"-122.4", "37.6">>, <<"-73.9", "40.7">>}

NoCenter == <<"", "">>

Outcome(raises, ok, json, has_features, features) ==
  [raises |-> raises, ok |-> ok, json |-> json,
   has_features |-> has_features, features |-> features]

HttpOutcomes ==
  {Outcome(TRUE, FALSE, FALSE, FALSE, <<>>),    \* timeout or network error
   Outcome(FALSE, FALSE, FALSE, FALSE, <<>>),   \* non-success status
   Outcome(FALSE, TRUE, FALSE, FALSE, <<>>),    \* body is not JSON
   Outcome(FALSE, TRUE, TRUE, FALSE, <<>>),     \* no "features" key
   Outcome(FALSE, TRUE, TRUE, TRUE, <<>>),      \* "features": []
   Outcome(FALSE, TRUE, TRUE, TRUE,             \* a feature without "center"
           <<[has_center |-> FALSE, center |-> NoCenter]>>)}
  \cup {Outcome(FALSE, TRUE, TRUE, TRUE, <<[has_center |-> TRUE, center |-> c]>>)
        : c \in Centers}

\* The result of a call: it returns value or raises exc, having issued
\* `requests` HTTP requests.
Returned(value, requests) ==
  [raised |-> FALSE, exc |-> "", value |-> value, requests |-> requests]

Raised(exc, requests) ==
  [raised |-> TRUE, exc |-> exc, value |-> None, requests |-> requests]

geocode_with_mapbox(address, token, http) ==
  IF TokenMissing(token) THEN Returned(None, 0)
  ELSE IF http.raises THEN Returned(None, 1)
  ELSE IF ~http.ok THEN Returned(None, 1)
  ELSE IF ~http.json THEN Raised("JSONDecodeError", 1)
  ELSE IF ~http.has_features \/ http.features = <<>> THEN Returned(None, 1)
  ELSE IF ~http.features[1].has_center THEN Raised("KeyError", 1)
  ELSE Returned(Some([lat |-> http.features[1].center[2],
                      lng |-> http.features[1].center[1]]), 1)

\* ----------------------------------------------------------- deep links
\* urllib.parse.quote_plus of one character of a value.
quote_plus_char(c) ==
  CASE c = SP -> "+"
    [] c = TAB -> "%09"
    [] OTHER -> c

quote_plus(v) == [i \in DOMAIN v |-> quote_plus_char(v[i])]

\* urllib.parse.quote_plus of a parameter name.
quote_plus_key(k) ==
  CASE k = "pickup[latitude]" -> "pickup%5Blatitude%5D"
    [] k = "pickup[longitude]" -> "pickup%5Blongitude%5D"
    [] k = "pickup[formatted_address]" -> "pickup%5Bformatted_address%5D"
    [] k = "dropoff[latitude]" -> "dropoff%5Blatitude%5D"
    [] k = "dropoff[longitude]" -> "dropoff%5Blongitude%5D"
    [] k = "dropoff[formatted_address]" -> "dropoff%5Bformatted_address%5D"
    [] k = "pickup[address]" -> "pickup%5Baddress%5D"
    [] k = "destination[latitude]" -> "destination%5Blatitude%5D"
    [] k = "destination[longitude]" -> "destination%5Blongitude%5D"
    [] k = "destination[address]" -> "destination%5Baddress%5D"
    [] OTHER -> k

\* urllib.parse.urlencode(params): name=value pairs, in insertion order,
\* joined by "&".  params is a sequence of <<name, value>>.
RECURSIVE urlencode(_)
urlencode(params) ==
  IF params = <<>> THEN <<>>
  ELSE LET kv == <<quote_plus_key(params[1][1]), "=">> \o quote_plus(params[1][2])
       IN IF Len(params) = 1 THEN kv
          ELSE kv \o <<"&">> \o urlencode(Tail(params))

\* The Uber link whose dropoff coordinates are emitted only when the pickup
\* was resolved too.
make_uber_link_coupled(pickup_address, dropoff_address, pickup_coords, dropoff_coords) ==
  LET base == << <<"action", <<"setPickup">> >>,
                 <<"client_id", <<UBER_CLIENT_ID>> >> >>
      pick == IF Truthy(pickup_coords)
              THEN << <<"pickup[latitude]", <<pickup_coords[1].lat>> >>,
                      <<"pickup[longitude]", <<pickup_coords[1].lng>> >>,
                      <<"pickup[formatted_address]", pickup_address>> >>
              ELSE << <<"pickup[formatted_address]", pickup_address>> >>
      drop == IF Truthy(pickup_coords) /\ Truthy(dropoff_coords)
              THEN << <<"dropoff[latitude]", <<dropoff_coords[1].lat>> >>,
                      <<"dropoff[longitude]", <<dropoff_coords[1].lng>> >>,
                      <<"dropoff[formatted_address]", dropoff_address>> >>
              ELSE << <<"dropoff[formatted_address]", dropoff_address>> >>
  IN <<"https://m.uber.com/ul/?">> \o urlencode(base \o pick \o drop)

make_uber_link(pickup_address, dropoff_address, pickup_coords, dropoff_coords) ==
  LET base == << <<"action", <<"setPickup">> >>,
                 <<"client_id", <<UBER_CLIENT_ID>> >> >>
      pick == IF Truthy(pickup_coords)
              THEN << <<"pickup[latitude]", <<pickup_coords[1].lat>> >>,
                      <<"pickup[longitude]", <<pickup_coords[1].lng>> >>,
                      <<"pickup[formatted_address]", pickup_address>> >>
              ELSE << <<"pickup[formatted_address]", pickup_address>> >>
      drop == IF Truthy(dropoff_coords)
              THEN << <<"dropoff[latitude]", <<dropoff_coords[1].lat>> >>,
                      <<"dropoff[longitude]", <<dropoff_coords[1].lng>> >>,
                      <<"dropoff[formatted_address]", dropoff_address>> >>
              ELSE << <<"dropoff[formatted_address]", dropoff_address>> >>
  IN <<"https://m.uber.com/ul/?">> \o urlencode(base \o pick \o drop)

make_lyft_link(pickup_address, dropoff_address, pickup_coords, dropoff_coords) ==
  LET base == << <<"id", <<"lyft">> >> >>
      pick == (IF Truthy(pickup_coords)
               THEN << <<"pickup[latitude]", <<pickup_coords[1].lat>> >>,
                       <<"pickup[longitude]", <<pickup_coords[1].lng>> >> >>
               ELSE <<>>)
              \o << <<"pickup[address]", pickup_address>> >>
      drop == (IF Truthy(dropoff_coords)
               THEN << <<"destination[latitude]", <<dropoff_coords[1].lat>> >>,
                       <<"destination[longitude]", <<dropoff_coords[1].lng>> >> >>
               ELSE <<>>)
              \o << <<"destination[address]", dropoff_address>> >>
  IN <<"lyft://ridetype?">> \o urlencode(base \o pick \o drop)

\* ---------------------------------------------------------- handle_fare
VARIABLES
  MAPBOX_TOKEN,    \* the module-level configuration read at start-up
  command,         \* the payload of the slash command
  pc,              \* the position of handle_fare
  pickup,          \* local: the pickup text
  dropoff,         \* local: the dropoff text
  pickup_coords,   \* local: None or Some([lat, lng])
  dropoff_coords,  \* local: None or Some([lat, lng])
  uber_url,        \* local: the Uber deep link (<<>> before it is built)
  lyft_url,        \* local: the Lyft deep link (<<>> before it is built)
  exc,             \* the exception in flight ("" when there is none)
  calls            \* every call handle_fare has made so far, in order

vars == <<MAPBOX_TOKEN, command, pc, pickup, dropoff, pickup_coords,
          dropoff_coords, uber_url, lyft_url, exc, calls>>

\* The text of line 136, without the two backquotes around the usage (a
\* TLA+ string cannot hold one).
FormatText == "Format: /fare pickup address to dropoff address"
MissingText == "I need both a pickup and a dropoff address."
ApologyText == "Sorry, something went wrong handling that request."

\* The payloads Slack can deliver: "text" missing or None, or a text.
Commands ==
  {[has_text |-> FALSE, text |-> <<>>]}
  \cup {[has_text |-> TRUE, text |-> t] : t \in Texts}

Init ==
  /\ MAPBOX_TOKEN \in MapboxTokens
  /\ command \in Commands
  /\ pc = "start"
  /\ pickup = <<>>
  /\ dropoff = <<>>
  /\ pickup_coords = None
  /\ dropoff_coords = None
  /\ uber_url = <<>>
  /\ lyft_url = <<>>
  /\ exc = ""
  /\ calls = <<>>

\* One call of respond(**kwargs); it returns or raises (the POST to the
\* response URL failed).
RespondCall(kwargs, raised) ==
  [op |-> "respond", kwargs |-> kwargs, raised |-> raised]

RespondError == "SlackRespondError"

\* Lines 134-137: the keyword arguments of the format guidance.
FormatReply == [response_type |-> "ephemeral", text |-> FormatText]

\* Lines 145-148: the keyword arguments of the missing-endpoint guidance.
MissingReply == [response_type |-> "ephemeral", text |-> MissingText]

\* The apology sent to the whole channel.
ApologyReply_public == [response_type |-> "in_channel", text |-> ApologyText]

\* The apology that shows the exception.
ApologyReply_leaky == [response_type |-> "ephemeral", text |-> exc]

\* Lines 219-222: the keyword arguments of the apology.
ApologyReply == [response_type |-> "ephemeral", text |-> ApologyText]

\* Lines 161-216: the keyword arguments of the public reply; its blocks
\* carry the summary and one button per deep link.
SuccessReply(p, d, uber, lyft) ==
  [response_type |-> "in_channel",
   blocks |-> [section |-> <<"*From:* ">> \o p \o <<"\n*To:* ">> \o d,
               open_uber |-> uber,
               open_lyft |-> lyft]]

\* A respond call made inside the try block: it returns, and handle_fare is
\* done, or it raises into the except clause.
RespondInTry(kwargs) ==
  \E raised \in BOOLEAN :
    /\ calls' = Append(calls, RespondCall(kwargs, raised))
    /\ pc' = IF raised THEN "except" ELSE "done"
    /\ exc' = IF raised THEN RespondError ELSE exc

\* The handler that enters the try block without acknowledging.
Ack_skipped ==
  /\ pc = "start"
  /\ pc' = "try"
  /\ UNCHANGED <<MAPBOX_TOKEN, command, pickup, dropoff, pickup_coords,
                 dropoff_coords, uber_url, lyft_url, exc, calls>>

\* app.py line 127: ack(), before the try block.
Ack ==
  /\ pc = "start"
  /\ calls' = Append(calls, [op |-> "ack"])
  /\ pc' = "try"
  /\ UNCHANGED <<MAPBOX_TOKEN, command, pickup, dropoff, pickup_coords,
                 dropoff_coords, uber_url, lyft_url, exc>>

\* Lines 140-142: the two trimmed parts around the first delimiter.
Parts(text) == <<strip(split1(text, Delimiter)[1]),
                 strip(split1(text, Delimiter)[2])>>

\* Lines 130-149: trim the text; without the delimiter reply with the format
\* guidance and return; otherwise split, trim both parts, and with an empty
\* part reply with the missing-endpoint guidance and return; otherwise go on
\* to geocoding.
Parse ==
  /\ pc = "try"
  /\ LET text == CommandText(command)
     IN IF ~Contains(text, Delimiter)
        THEN /\ RespondInTry(FormatReply)
             /\ UNCHANGED <<pickup, dropoff>>
        ELSE /\ pickup' = Parts(text)[1]
             /\ dropoff' = Parts(text)[2]
             /\ IF Parts(text)[1] = <<>> \/ Parts(text)[2] = <<>>
                THEN RespondInTry(MissingReply)
                ELSE /\ pc' = "geocode_pickup"
                     /\ UNCHANGED <<exc, calls>>
  /\ UNCHANGED <<MAPBOX_TOKEN, command, pickup_coords, dropoff_coords,
                 uber_url, lyft_url>>

\* One call of geocode_with_mapbox: the local it is assigned to, its
\* argument, the HTTP requests it issued and whether it raised.
GeocodeCall(target, address, r) ==
  [op |-> "geocode_with_mapbox", target |-> target, address |-> address,
   requests |-> r.requests, raised |-> r.raised]

\* Line 152: pickup_coords = geocode_with_mapbox(pickup)
GeocodePickup ==
  /\ pc = "geocode_pickup"
  /\ \E http \in HttpOutcomes :
       LET r == geocode_with_mapbox(pickup, MAPBOX_TOKEN, http)
       IN /\ calls' = Append(calls, GeocodeCall("pickup_coords", pickup, r))
          /\ pickup_coords' = IF r.raised THEN pickup_coords ELSE r.value
          /\ exc' = IF r.raised THEN r.exc ELSE exc
          /\ pc' = IF r.raised THEN "except" ELSE "geocode_dropoff"
  /\ UNCHANGED <<MAPBOX_TOKEN, command, pickup, dropoff, dropoff_coords,
                 uber_url, lyft_url>>

\* Line 153: dropoff_coords = geocode_with_mapbox(dropoff)
GeocodeDropoff ==
  /\ pc = "geocode_dropoff"
  /\ \E http \in HttpOutcomes :
       LET r == geocode_with_mapbox(dropoff, MAPBOX_TOKEN, http)
       IN /\ calls' = Append(calls, GeocodeCall("dropoff_coords", dropoff, r))
          /\ dropoff_coords' = IF r.raised THEN dropoff_coords ELSE r.value
          /\ exc' = IF r.raised THEN r.exc ELSE exc
          /\ pc' = IF r.raised THEN "except" ELSE "build_links"
  /\ UNCHANGED <<MAPBOX_TOKEN, command, pickup, dropoff, pickup_coords,
                 uber_url, lyft_url>>

\* Lines 157-158: the two deep links.
BuildLinks ==
  /\ pc = "build_links"
  /\ uber_url' = make_uber_link(pickup, dropoff, pickup_coords, dropoff_coords)
  /\ lyft_url' = make_lyft_link(pickup, dropoff, pickup_coords, dropoff_coords)
  /\ calls' = calls \o <<[op |-> "make_uber_link"], [op |-> "make_lyft_link"]>>
  /\ pc' = "respond"
  /\ UNCHANGED <<MAPBOX_TOKEN, command, pickup, dropoff, pickup_coords,
                 dropoff_coords, exc>>

\* Lines 161-216: the public reply with both buttons.
ReplySuccess ==
  /\ pc = "respond"
  /\ RespondInTry(SuccessReply(pickup, dropoff, uber_url, lyft_url))
  /\ UNCHANGED <<MAPBOX_TOKEN, command, pickup, dropoff, pickup_coords,
                 dropoff_coords, uber_url, lyft_url>>

\* The except clause that swallows the exception without a reply.
HandleException_silent ==
  /\ pc = "except"
  /\ pc' = "done"
  /\ exc' = ""
  /\ UNCHANGED <<MAPBOX_TOKEN, command, pickup, dropoff, pickup_coords,
                 dropoff_coords, uber_url, lyft_url, calls>>

\* Lines 217-222: the except clause.  An exception raised by its own
\* respond call leaves handle_fare.
HandleException ==
  /\ pc = "except"
  /\ \E raised \in BOOLEAN :
       /\ calls' = Append(calls,
            RespondCall(ApologyReply, raised))
       /\ pc' = IF raised THEN "raised" ELSE "done"
       /\ exc' = IF raised THEN RespondError ELSE ""
  /\ UNCHANGED <<MAPBOX_TOKEN, command, pickup, dropoff, pickup_coords,
                 dropoff_coords, uber_url, lyft_url>>

Next ==
  \/ Ack
  \/ Parse
  \/ GeocodePickup
  \/ GeocodeDropoff
  \/ BuildLinks
  \/ ReplySuccess
  \/ HandleException

Spec == Init /\ [][Next]_vars

\* The invocations on the shorter command texts.
InitShort == Init /\ command.text \in TextsUpTo(MaxLivePieces)

\* handle_fare is sequential code and every call it makes returns or
\* raises (requests.get has timeout=5): an enabled step is taken.
FairSpec == InitShort /\ [][Next]_vars /\ WF_vars(Next)

\* ------------------------------------------------- vocabulary of the claims
\* The raw text of the command ("" when the payload carries none).
RawText == IF command.has_text THEN command.text ELSE <<>>

\* s without its leading and trailing whitespace: from its first to its
\* last character that is not whitespace.
Trimmed(s) ==
  LET solid == {i \in DOMAIN s : s[i] \notin Whitespace}
  IN IF solid = {} THEN <<>>
     ELSE SubSeq(s, CHOOSE i \in solid : \A j \in solid : i <= j,
                    CHOOSE i \in solid : \A j \in solid : i >= j)

\* " to " starts at position i of s.
DelimiterAt(s, i) ==
  /\ i >= 1
  /\ i + 3 <= Len(s)
  /\ s[i] = " " /\ s[i + 1] = "t" /\ s[i + 2] = "o" /\ s[i + 3] = " "

\* The trimmed form of the raw text holds " to " somewhere.
TrimmedHasDelimiter ==
  \E i \in 1..Len(RawText) : DelimiterAt(Trimmed(RawText), i)

Indices(op) == {i \in DOMAIN calls : calls[i].op = op}

RespondIndices == Indices("respond")

GeocodeIndices(target) ==
  {i \in Indices("geocode_with_mapbox") : calls[i].target = target}

LinkIndices == Indices("make_uber_link") \cup Indices("make_lyft_link")

\* The respond calls that carry the given text.
TextIndices(text) ==
  {i \in RespondIndices :
     "text" \in DOMAIN calls[i].kwargs /\ calls[i].kwargs.text = text}

\* The respond calls that carry the blocks of the successful reply.
SuccessIndices == {i \in RespondIndices : "blocks" \in DOMAIN calls[i].kwargs}

\* handle_fare has returned or has raised.
Terminated == pc \in {"done", "raised"}

\* The parse step is over.
PastParse == pc \notin {"start", "try"}

\* The command parsed into a pickup and a dropoff: the handler went on to
\* geocoding.
ParsedOk == pc = "geocode_pickup" \/ GeocodeIndices("pickup_coords") # {}

\* The exceptions raised inside the try block, by position in calls.
RaisedInTry ==
  {i \in Indices("geocode_with_mapbox") : calls[i].raised}
  \cup {i \in RespondIndices \ TextIndices(ApologyText) : calls[i].raised}

\* The first respond call of the invocation is the ephemeral reply `text`.
FirstReplyIs(text) ==
  /\ RespondIndices # {}
  /\ LET first == CHOOSE i \in RespondIndices : \A j \in RespondIndices : i <= j
     IN /\ "text" \in DOMAIN calls[first].kwargs
        /\ calls[first].kwargs.text = text

\* ------------------------------------------------------------------- C1
\* C1: when the trimmed command text does not contain " to " (empty and
\* blank texts included), handle_fare replies with the format guidance, and
\* on that path it makes no geocoding call and builds no deep link.
C1_MalformedCommand ==
  (PastParse /\ ~TrimmedHasDelimiter) =>
    /\ FirstReplyIs(FormatText)
    /\ TextIndices(MissingText) = {}
    /\ SuccessIndices = {}
    /\ Indices("geocode_with_mapbox") = {}
    /\ LinkIndices = {}
    /\ uber_url = <<>> /\ lyft_url = <<>>

\* A text that holds " to " only before trimming ("A to ") got the format
\* guidance and the handler returned.
C1_Witness ==
  /\ pc = "done"
  /\ ~TrimmedHasDelimiter
  /\ \E i \in 1..Len(RawText) : DelimiterAt(RawText, i)
  /\ TextIndices(FormatText) # {}

\* ------------------------------------------------------------------- C2
\* The raw text holds " to " with nothing but whitespace on both sides.
BlankAroundDelimiter ==
  \E i \in 1..Len(RawText) :
    /\ DelimiterAt(RawText, i)
    /\ \A j \in 1..(i - 1) : RawText[j] \in Whitespace
    /\ \A j \in (i + 4)..Len(RawText) : RawText[j] \in Whitespace

\* C2: for a text with the delimiter present and both sides blank after
\* trimming (such as "  to  "), handle_fare replies "I need both a pickup
\* and a dropoff address." and not the format guidance.
C2_MissingEndpoint ==
  (PastParse /\ BlankAroundDelimiter) =>
    /\ FirstReplyIs(MissingText)
    /\ TextIndices(FormatText) = {}

\* ------------------------------------------------------------------- C3
\* The position of the first " to " of s.
FirstDelimiter(s) ==
  CHOOSE i \in 1..Len(s) :
    DelimiterAt(s, i) /\ \A j \in 1..(i - 1) : ~DelimiterAt(s, j)

NoOuterWhitespace(s) ==
  s # <<>> /\ s[1] \notin Whitespace /\ s[Len(s)] \notin Whitespace

\* C3: when the command parses, the pickup is the trimmed text before the
\* first " to " and the dropoff the trimmed remainder after it (later " to "
\* stay in the dropoff); both are non-empty without outer whitespace, and
\* they are the values geocoded, linked and shown in the summary.
C3_FirstDelimiterSplit ==
  ParsedOk =>
    LET t == Trimmed(RawText)
        i == FirstDelimiter(t)
    IN /\ TrimmedHasDelimiter
       /\ pickup = Trimmed(SubSeq(t, 1, i - 1))
       /\ dropoff = Trimmed(SubSeq(t, i + 4, Len(t)))
       /\ NoOuterWhitespace(pickup)
       /\ NoOuterWhitespace(dropoff)
       /\ \A k \in GeocodeIndices("pickup_coords") : calls[k].address = pickup
       /\ \A k \in GeocodeIndices("dropoff_coords") : calls[k].address = dropoff
       /\ uber_url # <<>> =>
            uber_url = make_uber_link(pickup, dropoff, pickup_coords, dropoff_coords)
       /\ lyft_url # <<>> =>
            lyft_url = make_lyft_link(pickup, dropoff, pickup_coords, dropoff_coords)
       /\ \A k \in SuccessIndices :
            calls[k].kwargs.blocks.section
              = <<"*From:* ">> \o pickup \o <<"\n*To:* ">> \o dropoff

\* "A to A to A" was split into "A" and "A to A" and the reply was sent.
C3_Witness ==
  /\ pc = "done"
  /\ SuccessIndices # {}
  /\ pickup = <<"A">>
  /\ dropoff = <<"A", " ", "t", "o", " ", "A">>

\* ------------------------------------------------------------------- C4
\* The positions of the encoded parameter name `key` in a link.
ParamAt(url, key) ==
  {i \in 1..(Len(url) - 1) : url[i] = key /\ url[i + 1] = "="}

HasParam(url, key) == ParamAt(url, key) # {}

\* The encoded value of the one parameter `key`: what follows its "=" up to
\* the next "&" or the end of the link.
ParamValue(url, key) ==
  LET i == CHOOSE k \in ParamAt(url, key) : TRUE
      stops == {j \in (i + 2)..Len(url) : url[j] = "&"} \cup {Len(url) + 1}
      stop == CHOOSE j \in stops : \A k \in stops : j <= k
  IN SubSeq(url, i + 2, stop - 1)

\* Percent-decoding of an encoded value.
Decoded(v) ==
  [i \in DOMAIN v |-> IF v[i] = "+" THEN " " ELSE IF v[i] = "%09" THEN "\t" ELSE v[i]]

\* In `url` the endpoint has its address parameter, holding `address`, and
\* has its latitude and longitude parameters exactly when coords is not None.
EndpointParams(url, addressKey, latKey, lngKey, address, coords) ==
  /\ Cardinality(ParamAt(url, addressKey)) = 1
  /\ Decoded(ParamValue(url, addressKey)) = address
  /\ HasParam(url, latKey) <=> coords # None
  /\ HasParam(url, lngKey) <=> coords # None
  /\ coords # None =>
       /\ Cardinality(ParamAt(url, latKey)) = 1
       /\ Cardinality(ParamAt(url, lngKey)) = 1
       /\ ParamValue(url, latKey) = <<coords[1].lat>>
       /\ ParamValue(url, lngKey) = <<coords[1].lng>>

\* C4: each link carries the address of both endpoints always, and the
\* latitude and longitude of an endpoint exactly when that endpoint's
\* coordinates were resolved, whatever the other endpoint has.
C4_CoordinatesPerEndpoint ==
  uber_url # <<>> =>
    /\ EndpointParams(uber_url, "pickup%5Bformatted_address%5D",
                      "pickup%5Blatitude%5D", "pickup%5Blongitude%5D",
                      pickup, pickup_coords)
    /\ EndpointParams(uber_url, "dropoff%5Bformatted_address%5D",
                      "dropoff%5Blatitude%5D", "dropoff%5Blongitude%5D",
                      dropoff, dropoff_coords)
    /\ EndpointParams(lyft_url, "pickup%5Baddress%5D",
                      "pickup%5Blatitude%5D", "pickup%5Blongitude%5D",
                      pickup, pickup_coords)
    /\ EndpointParams(lyft_url, "destination%5Baddress%5D",
                      "destination%5Blatitude%5D", "destination%5Blongitude%5D",
                      dropoff, dropoff_coords)

\* Links were built with coordinates for the dropoff only.
C4_Witness ==
  /\ uber_url # <<>>
  /\ lyft_url # <<>>
  /\ pickup_coords = None
  /\ dropoff_coords # None

\* ------------------------------------------------------------------- C5
\* C5: for a parsed command, no failure of a geocoding lookup becomes an
\* error outcome of the request: unless a respond call itself fails,
\* handle_fare ends having sent the normal reply with both links and no
\* apology.
C5_GeocodeFailureAbsorbed ==
  (Terminated /\ ParsedOk /\ \A i \in RespondIndices : ~calls[i].raised) =>
    /\ \A i \in Indices("geocode_with_mapbox") : ~calls[i].raised
    /\ SuccessIndices # {}
    /\ TextIndices(ApologyText) = {}

\* ------------------------------------------------------------------- C6
\* C6: every guidance, missing-endpoint or apology reply is ephemeral, and a
\* reply is in_channel only when it is the successful result carrying both
\* deep links.
C6_VisibilityByOutcome ==
  \A i \in RespondIndices :
    LET k == calls[i].kwargs
    IN /\ k.response_type \in {"ephemeral", "in_channel"}
       /\ "text" \in DOMAIN k =>
            /\ k.response_type = "ephemeral"
            /\ k.text \in {FormatText, MissingText, ApologyText}
       /\ k.response_type = "in_channel" =>
            /\ "blocks" \in DOMAIN k
            /\ "text" \notin DOMAIN k
            /\ ParsedOk
            /\ k.blocks.open_uber # <<>> /\ k.blocks.open_uber = uber_url
            /\ k.blocks.open_lyft # <<>> /\ k.blocks.open_lyft = lyft_url

\* The public reply failed to send and the apology went out after it.
C6_Witness ==
  /\ pc = "done"
  /\ SuccessIndices # {}
  /\ TextIndices(ApologyText) # {}

\* ------------------------------------------------------------------- C7
\* C7: ack is called exactly once and before anything else: before parsing,
\* every geocoding call, link building and every reply.
C7_AckFirst ==
  IF pc = "start" THEN calls = <<>>
  ELSE /\ calls # <<>>
       /\ calls[1].op = "ack"
       /\ Cardinality(Indices("ack")) = 1

\* A request that went through geocoding, link building and the reply.
C7_Witness ==
  /\ pc = "done"
  /\ Indices("geocode_with_mapbox") # {}
  /\ LinkIndices # {}
  /\ SuccessIndices # {}
  /\ calls[1].op = "ack"

\* ------------------------------------------------------------------- C8
\* The apology calls that raised.
ApologyRaised == {i \in TextIndices(ApologyText) : calls[i].raised}

\* C8 as first stated: every exception raised after the acknowledgment,
\* sending a reply included, is caught by handle_fare and answered with the
\* apology, and the apology is sent only after an exception.
C8_EveryExceptionCaught ==
  /\ pc # "raised"
  /\ (RaisedInTry # {} /\ pc # "except") => TextIndices(ApologyText) # {}
  /\ TextIndices(ApologyText) # {} => RaisedInTry # {}

\* C8 as amended: an exception raised inside the try block (by a geocoding
\* call or by the guidance or success respond call) is caught and answered
\* by one respond call carrying exactly the fixed apology text, the call
\* right after the one that raised; the apology is sent only then; an
\* exception raised by the apology's own respond call is not caught and
\* leaves handle_fare.
C8_TryExceptionCaught ==
  /\ Cardinality(RaisedInTry) <= 1
  /\ (RaisedInTry # {} /\ pc # "except") =>
       /\ Cardinality(TextIndices(ApologyText)) = 1
       /\ \A i \in RaisedInTry : (i + 1) \in TextIndices(ApologyText)
  /\ TextIndices(ApologyText) # {} => RaisedInTry # {}
  /\ \A i \in RespondIndices :
       ("text" \in DOMAIN calls[i].kwargs
          /\ calls[i].kwargs.text \notin {FormatText, MissingText})
       => calls[i].kwargs.text = ApologyText
  /\ pc = "raised" <=> ApologyRaised # {}
  /\ pc = "raised" => exc # ""
  /\ pc = "done" => exc = ""

\* A geocoding call raised and the apology was delivered.
C8_Witness ==
  /\ pc = "done"
  /\ \E i \in Indices("geocode_with_mapbox") : calls[i].raised
  /\ TextIndices(ApologyText) # {}
  /\ ApologyRaised = {}

\* ------------------------------------------------------------------- C9
\* C9: a parsed command gets exactly one geocoding attempt for the pickup
\* and exactly one for the dropoff, each with at most one HTTP request and
\* none without a credential, and both are over before a link is built.
C9_OneAttemptPerEndpoint ==
  /\ \A i \in Indices("geocode_with_mapbox") :
       /\ calls[i].requests <= 1
       /\ TokenMissing(MAPBOX_TOKEN) => calls[i].requests = 0
  /\ \A i \in LinkIndices :
       /\ \E j \in GeocodeIndices("pickup_coords") : j < i
       /\ \E j \in GeocodeIndices("dropoff_coords") : j < i
       /\ \A j \in Indices("geocode_with_mapbox") : j < i
  /\ (Terminated /\ ParsedOk) =>
       /\ Cardinality(GeocodeIndices("pickup_coords")) = 1
       /\ Cardinality(GeocodeIndices("dropoff_coords")) = 1

\* ------------------------------------------------------------------ C10
\* The respond calls that returned.
Delivered == {i \in RespondIndices : ~calls[i].raised}

\* C10 as first stated: handle_fare ends having called respond exactly once.
C10_RespondExactlyOnce ==
  Terminated => Cardinality(RespondIndices) = 1

\* The replies of a finished invocation: one respond call, or two when the
\* first one raised, the second being the apology; never two delivered.
C10_Replies ==
  Terminated =>
    LET n == Cardinality(RespondIndices)
        first == CHOOSE i \in RespondIndices : \A j \in RespondIndices : i <= j
    IN /\ n \in {1, 2}
       /\ n = 2 <=> (calls[first].raised /\ first \notin TextIndices(ApologyText))
       /\ n = 2 => (RespondIndices \ {first}) \subseteq TextIndices(ApologyText)
       /\ Cardinality(Delivered) <= 1
       /\ Cardinality(Delivered) = 0 <=> pc = "raised"

\* C10 as amended: every invocation terminates, having called respond once,
\* or twice when the respond call made inside the try block raised (the
\* second call is then the apology); at most one of the calls returns, so
\* guidance, success reply and apology are never delivered together.
C10_RespondOnceOrTwice == <>Terminated /\ []C10_Replies

\* An invocation that ended after two respond calls.
C10_Witness ==
  /\ Terminated
  /\ Cardinality(RespondIndices) = 2

====
